---------------------------- MODULE Spec2Model ----------------------------
(***************************************************************************)
(* Model of src/ast.rs: the expression tree (Expr, BinaryOp, Number), the  *)
(* error type (ArithmeticError) and the two-pass stack evaluator parser(). *)
(*                                                                         *)
(* An Expr is a record: [tag |-> "Number", num |-> o] where o is an        *)
(* Option<Number> (<<>> is None, <<v>> is Some(Number(v))),                *)
(* [tag |-> "Operation", l, r, op] and [tag |-> "Operator", op].           *)
(* A Vec is a sequence whose last element is the top of the stack.         *)
(***************************************************************************)
EXTENDS Integers, Sequences, FiniteSets, TLC

VARIABLES op, parser_stack, rev_polish, ans, pc, result, pops, message

vars == <<op, parser_stack, rev_polish, ans, pc, result, pops, message>>

(***************************************************************************)
(* Bounds of the model.                                                    *)
(***************************************************************************)
\* literals of the input trees are 0..MaxLeaf
MaxLeaf == 2
\* input trees have at most MaxOps Operation nodes
MaxOps == 2
\* width in bits of the unsigned integer of the model (u128 in the source)
Width == 2
\* error codes 0..MaxCode are resolved
MaxCode == 3

Modulus == 2 ^ Width

(***************************************************************************)
(* Data model.                                                             *)
(***************************************************************************)
OperatorKind == {"Add", "Sub", "Mul", "Div"}

None == <<>>

Some(v) == <<v>>

\* Expr::Number(num), num an Option<Number>
ExprNumber(num) == [tag |-> "Number", num |-> num]

\* Expr::Operator(kind)
ExprOperator(kind) == [tag |-> "Operator", op |-> kind]

\* BinaryOp::new(l, r, op)
BinaryOp_new(l, r, kind) == [tag |-> "Operation", l |-> l, r |-> r, op |-> kind]

\* Number::new(n)
Number_new(n) == ExprNumber(Some(n))

(***************************************************************************)
(* Raw integer arithmetic of the Number operators.  Each gives the set of  *)
(* outcomes the build can produce: Some(v) is the value, None is the       *)
(* overflow panic of a build with overflow checks; a build without them    *)
(* wraps modulo 2^Width.  A division by zero always panics.                *)
(***************************************************************************)
Checked(x) ==
    IF x \in 0 .. (Modulus - 1)
    THEN {Some(x)}
    ELSE {None, Some((x + Modulus * Modulus) % Modulus)}

\* the operands exchanged
Number_sub_exchanged(self, other) == Checked(other - self)

Number_sub(self, other) == Checked(self - other)

Number_add(self, other) == Checked(self + other)

Number_mul(self, other) == Checked(self * other)

Number_div(self, other) ==
    IF other = 0 THEN {None} ELSE {Some(self \div other)}

(***************************************************************************)
(* ArithmeticError.                                                        *)
(***************************************************************************)
\* `code as usize` of ArithmeticErrorKind
KindAsUsize(kind) == IF kind = "Success" THEN 0 ELSE 1

\* the code of Success whatever the kind
ArithmeticError_new_success(kind) == [e_code |-> KindAsUsize("Success")]

ArithmeticError_new(kind) == [e_code |-> KindAsUsize(kind)]

\* The first arm of the match, `success => ...`, is an identifier pattern: it
\* binds every e_code, so the arms after it are never taken.
to_enum(self) ==
    LET success == KindAsUsize("Success")
        div_by_zero == KindAsUsize("DivByZero")
    IN  IF TRUE \* the pattern `success` matches whatever self.e_code is
        THEN Some("Success")
        ELSE IF TRUE \* and so would the pattern `div_by_zero`
        THEN Some("DivByZero")
        ELSE None

MsgSuccess == "seikou shimashita"

MsgDivByZero == "kai nashi: zero josan ga hassei shimashita"

MsgUnknown == "sonzai shinai error code ga shitei saremashita"

resolve_string(self) ==
    LET k == to_enum(self)
    IN  IF k = Some("Success") THEN MsgSuccess
        ELSE IF k = Some("DivByZero") THEN MsgDivByZero
        ELSE MsgUnknown

(***************************************************************************)
(* Input trees.                                                            *)
(***************************************************************************)
\* The leaves of a tree: the literals, Number(None) and a bare Operator.  The
\* kind of a bare Operator is never looked at (the arm `_ => panic!()` of the
\* first loop takes it), so one kind stands for the four.
Leaves ==
    {Number_new(v) : v \in 0 .. MaxLeaf}
        \cup {ExprNumber(None)}
        \cup {ExprOperator("Div")}

RECURSIVE TreesWithOps(_)
TreesWithOps(n) ==
    IF n = 0
    THEN Leaves
    ELSE UNION {{BinaryOp_new(l, r, k) :
                    l \in TreesWithOps(i), r \in TreesWithOps(n - 1 - i),
                    k \in OperatorKind} : i \in 0 .. (n - 1)}

\* t is a tree of at most MaxOps Operation nodes
IsInputTree(t) ==
    \/ t \in Leaves
    \/ \E n \in 1 .. MaxOps : \E i \in 0 .. (n - 1) :
          \E l \in TreesWithOps(i), r \in TreesWithOps(n - 1 - i),
             k \in OperatorKind : t = BinaryOp_new(l, r, k)

(***************************************************************************)
(* Results of parser: no result yet, Ok(Number), Err(ArithmeticError) or a *)
(* panic.                                                                  *)
(***************************************************************************)
NoResult == [kind |-> "None"]

Ok(v) == [kind |-> "Ok", val |-> v]

Err(e) == [kind |-> "Err", err |-> e]

Panic == [kind |-> "Panic"]

Top(s) == s[Len(s)]

Pop(s) == SubSeq(s, 1, Len(s) - 1)

(***************************************************************************)
(* parser(op)                                                              *)
(***************************************************************************)
Init ==
    /\ IsInputTree(op)
    /\ parser_stack = <<op>>
    /\ rev_polish = <<>>
    /\ ans = <<>>
    /\ pc = "pass1"
    /\ result = NoResult
    /\ pops = 0
    /\ message = ""

\* a panic unwinds: the function ends without a value
Abort ==
    /\ pc' = "done"
    /\ result' = Panic

\* the right child pushed before the left child
PushChildren_right_first(rest, v) == Append(Append(rest, v.r), v.l)

\* parser_stack.push(op.l); parser_stack.push(op.r);
PushChildren(rest, v) == Append(Append(rest, v.l), v.r)

\* one iteration of the first loop
Pass1Step ==
    /\ pc = "pass1"
    /\ UNCHANGED <<op, ans, message>>
    /\ IF parser_stack = <<>>
       THEN /\ Abort
            /\ UNCHANGED <<parser_stack, rev_polish, pops>>
       ELSE LET v == Top(parser_stack)
                rest == Pop(parser_stack)
            IN  /\ pops' = pops + 1
                /\ CASE v.tag = "Number" ->
                          /\ rev_polish' = Append(rev_polish, ExprNumber(v.num))
                          /\ parser_stack' = rest
                          /\ pc' = IF Len(rest) = 0 THEN "pass2" ELSE "pass1"
                          /\ UNCHANGED result
                     [] v.tag = "Operation" ->
                          /\ rev_polish' = Append(rev_polish, ExprOperator(v.op))
                          /\ parser_stack' = PushChildren(rest, v)
                          /\ UNCHANGED <<pc, result>>
                     [] OTHER ->
                          /\ Abort
                          /\ parser_stack' = rest
                          /\ UNCHANGED rev_polish

\* the Mul arm taken for the Add arm
Apply_mul_as_add(kind, l, r) ==
    CASE kind = "Add" -> Number_add(l, r)
      [] kind = "Sub" -> Number_sub(l, r)
      [] kind = "Mul" -> Number_add(l, r)
      [] kind = "Div" -> Number_div(l, r)

\* the arithmetic arms of `match op { ... }` on the operands l and r: Some(v) is
\* the value computed, None the panic of the arithmetic
Apply(kind, l, r) ==
    CASE kind = "Add" -> Number_add(l, r)
      [] kind = "Sub" -> Number_sub(l, r)
      [] kind = "Mul" -> Number_mul(l, r)
      [] kind = "Div" -> Number_div(l, r)

\* the zero test made on the left operand
ReturnsDivByZero_left(kind, l, r) == kind = "Div" /\ ~(l # 0)

\* the arm OperatorKind::Div returns early when `r != 0` is false
ReturnsDivByZero(kind, l, r) == kind = "Div" /\ ~(r # 0)

\* the error is recorded and the loop goes on
ReturnErr_continue ==
    /\ pc' = pc
    /\ result' = Err(ArithmeticError_new("DivByZero"))

\* return Err(ArithmeticError::new(ArithmeticErrorKind::DivByZero))
ReturnErr ==
    /\ pc' = "done"
    /\ result' = Err(ArithmeticError_new("DivByZero"))

\* the value pushed onto the result stack instead
PushResult_onto_ans(rest, v) ==
    /\ rev_polish' = rest
    /\ ans' = Append(Pop(Pop(ans)), Some(v))

\* rev_polish.push(ans), ans the Expr::Number computed from l and r, which
\* were popped from the result stack
PushResult(rest, v) ==
    /\ rev_polish' = Append(rest, Number_new(v))
    /\ ans' = Pop(Pop(ans))

\* the Expr::Operator arm of the second loop
OperatorArm(kind, rest) ==
    IF Len(ans) = 0 \/ Top(ans) = None
    THEN \* ans.pop().unwrap().unwrap() of r panics
         /\ Abort
         /\ rev_polish' = rest
         /\ ans' = IF Len(ans) = 0 THEN ans ELSE Pop(ans)
    ELSE IF Len(ans) = 1 \/ Top(Pop(ans)) = None
    THEN \* ans.pop().unwrap().unwrap() of l panics
         /\ Abort
         /\ rev_polish' = rest
         /\ ans' = IF Len(ans) = 1 THEN Pop(ans) ELSE Pop(Pop(ans))
    ELSE LET r == Top(ans)[1]
             l == Top(Pop(ans))[1]
         IN  IF ReturnsDivByZero(kind, l, r)
             THEN /\ ReturnErr
                  /\ rev_polish' = rest
                  /\ ans' = Pop(Pop(ans))
             ELSE \E o \in Apply(kind, l, r) :
                     IF o = None
                     THEN /\ Abort
                          /\ rev_polish' = rest
                          /\ ans' = Pop(Pop(ans))
                     ELSE /\ PushResult(rest, o[1])
                          /\ UNCHANGED <<pc, result>>

\* the test of rev_polish.len() left out
Pass2Done_ans_only(rest, a) == Len(a) = 1

\* if rev_polish.len() == 0 && ans.len() == 1 { break; }
Pass2Done(rest, a) == Len(rest) = 0 /\ Len(a) = 1

\* one iteration of the second loop
Pass2Step ==
    /\ pc = "pass2"
    /\ UNCHANGED <<op, parser_stack, pops, message>>
    /\ IF rev_polish = <<>>
       THEN /\ Abort
            /\ UNCHANGED <<rev_polish, ans>>
       ELSE LET e == Top(rev_polish)
                rest == Pop(rev_polish)
            IN  CASE e.tag = "Number" ->
                       /\ ans' = Append(ans, e.num)
                       /\ rev_polish' = rest
                       /\ pc' = IF Pass2Done(rest, ans') THEN "ret" ELSE "pass2"
                       /\ UNCHANGED result
                  [] e.tag = "Operator" -> OperatorArm(e.op, rest)
                  [] OTHER ->
                       /\ Abort
                       /\ rev_polish' = rest
                       /\ UNCHANGED ans

\* unwrap_or(0) in place of unwrap()
Unwrap_or_zero(o) == IF o = None THEN Ok(0) ELSE Ok(o[1])

\* .unwrap() of the Option<Number> popped last
Unwrap(o) == IF o = None THEN Panic ELSE Ok(o[1])

\* Ok(ans.pop().unwrap().unwrap())
Return ==
    /\ pc = "ret"
    /\ UNCHANGED <<op, parser_stack, rev_polish, pops, message>>
    /\ pc' = "done"
    /\ IF Len(ans) = 0
       THEN /\ result' = Panic
            /\ UNCHANGED ans
       ELSE /\ ans' = Pop(ans)
            /\ result' = Unwrap(Top(ans))

\* Display of the returned error: write!(f, "{}", self.resolve_string())
Display ==
    /\ pc = "done"
    /\ result.kind = "Err"
    /\ message = ""
    /\ message' = resolve_string(result.err)
    /\ UNCHANGED <<op, parser_stack, rev_polish, ans, pc, result, pops>>

Next == Pass1Step \/ Pass2Step \/ Return \/ Display

Spec == Init /\ [][Next]_vars

\* the function runs to its end: it is sequential code that nothing suspends
FairSpec == Spec /\ WF_vars(Next)

TypeOK ==
    /\ pc \in {"pass1", "pass2", "ret", "done"}
    /\ result.kind \in {"None", "Ok", "Err", "Panic"}

(***************************************************************************)
(* Reference definitions the properties are stated with.                   *)
(***************************************************************************)
\* every leaf is Number(Some(v)), every inner node an Operation
RECURSIVE WellFormed(_)
WellFormed(t) ==
    CASE t.tag = "Number" -> t.num # None
      [] t.tag = "Operation" -> WellFormed(t.l) /\ WellFormed(t.r)
      [] OTHER -> FALSE

RECURSIVE NodeCount(_)
NodeCount(t) ==
    IF t.tag = "Operation" THEN 1 + NodeCount(t.l) + NodeCount(t.r) ELSE 1

\* the outcome of the evaluation: the value v, or the first fault
Value(x) == [fault |-> "none", v |-> x]

DivByZeroFault == [fault |-> "DivByZero", v |-> 0]

RangeFault == [fault |-> "OutOfRange", v |-> 0]

\* eval(l) op eval(r) on the mathematical integers, the left subtree first;
\* a fault is the result of the first subtree that has one
RECURSIVE evaluate(_)
evaluate(t) ==
    IF t.tag = "Number"
    THEN Value(t.num[1])
    ELSE LET le == evaluate(t.l)
             re == evaluate(t.r)
             x == CASE t.op = "Add" -> le.v + re.v
                    [] t.op = "Sub" -> le.v - re.v
                    [] t.op = "Mul" -> le.v * re.v
                    [] t.op = "Div" -> le.v \div re.v
         IN  IF le.fault # "none" THEN le
             ELSE IF re.fault # "none" THEN re
             ELSE IF t.op = "Div" /\ re.v = 0 THEN DivByZeroFault
             ELSE IF x \notin 0 .. (Modulus - 1) THEN RangeFault
             ELSE Value(x)

\* the value of a tree whose evaluation has no fault
eval(t) == evaluate(t).v

HasValue(t) == WellFormed(t) /\ evaluate(t).fault = "none"

(***************************************************************************)
(* C1: for every well-formed tree without a zero divisor and without an    *)
(* operation that leaves the unsigned range, parser returns Ok(v), v the   *)
(* value of the recursive evaluation eval(l) op eval(r); a bare Number(n)  *)
(* returns n.                                                              *)
(***************************************************************************)
C1_ParserReturnsEval ==
    (pc = "done" /\ HasValue(op)) => result = Ok(eval(op))

C1_Witness ==
    /\ pc = "done"
    /\ op.tag = "Operation"
    /\ op.op = "Sub"
    /\ op.r.tag = "Operation"
    /\ op.r.op = "Div"
    /\ HasValue(op)
    /\ result = Ok(1)

(***************************************************************************)
(* C2: for every n, 0 included, parser(BinaryOp(Number(n), Number(0), Div))*)
(* returns Err(ArithmeticError) with the DivByZero code 1 and never        *)
(* Ok(value).                                                              *)
(***************************************************************************)
IsDivByLiteralZero(t) ==
    /\ t.tag = "Operation"
    /\ t.op = "Div"
    /\ t.l.tag = "Number" /\ t.l.num # None
    /\ t.r = Number_new(0)

C2_DivByZeroIsErr ==
    IsDivByLiteralZero(op) =>
        /\ result.kind # "Ok"
        /\ pc = "done" => result = Err([e_code |-> 1])

C2_Witness ==
    /\ IsDivByLiteralZero(op)
    /\ op.l = Number_new(0)
    /\ pc = "done"
    /\ result = Err([e_code |-> 1])

(***************************************************************************)
(* C3 as stated: for all a # b, parser(BinaryOp(Number(a), Number(b), Sub))*)
(* evaluates to a - b.                                                     *)
(***************************************************************************)
IsLiteralSub(t) ==
    /\ t.tag = "Operation"
    /\ t.op = "Sub"
    /\ t.l.tag = "Number" /\ t.l.num # None
    /\ t.r.tag = "Number" /\ t.r.num # None
    /\ t.l.num # t.r.num

C3_Original ==
    (pc = "done" /\ IsLiteralSub(op)) => result = Ok(op.l.num[1] - op.r.num[1])

(***************************************************************************)
(* C3 amended: for a > b the result is Ok(a - b) and not Ok(b - a); for    *)
(* a < b the subtraction a - b, computed with a as the left operand,       *)
(* leaves the unsigned range: parser panics or returns the wrapped value   *)
(* 2^Width + a - b.                                                        *)
(***************************************************************************)
C3_SubOperandOrder ==
    (pc = "done" /\ IsLiteralSub(op)) =>
        LET a == op.l.num[1]
            b == op.r.num[1]
        IN  IF a > b
            THEN result = Ok(a - b) /\ result # Ok(b - a)
            ELSE result \in {Panic, Ok(Modulus + a - b)}

C3_Witness ==
    /\ pc = "done"
    /\ IsLiteralSub(op)
    /\ op.l = Number_new(2)
    /\ op.r = Number_new(1)
    /\ result = Ok(1)

(***************************************************************************)
(* C4: division by zero is the only typed error: an Err carries code 1,    *)
(* never code 0 or another code, and the step that produced it applied a   *)
(* Div operator whose right operand was 0; Add, Sub and Mul steps and Div  *)
(* steps with a non-zero right operand never produce Err.                  *)
(***************************************************************************)
AtOperator(kinds) ==
    /\ pc = "pass2"
    /\ rev_polish # <<>>
    /\ Top(rev_polish).tag = "Operator"
    /\ Top(rev_polish).op \in kinds

C4_OnlyDivByZeroErr ==
    /\ [](result.kind = "Err" => result.err.e_code = 1)
    /\ [][result'.kind = "Err" /\ result.kind # "Err" =>
            /\ AtOperator({"Div"})
            /\ Len(ans) >= 2
            /\ Top(ans) = Some(0)]_vars
    /\ [][(AtOperator({"Add", "Sub", "Mul"})
            \/ (AtOperator({"Div"}) /\ Len(ans) >= 1 /\ Top(ans) # Some(0)))
              => result'.kind # "Err"]_vars

C4_Witness ==
    /\ result.kind = "Err"
    /\ result.err.e_code = 1
    /\ op.tag = "Operation"
    /\ op.op = "Add"
    /\ op.l.tag = "Operation"
    /\ op.l.op = "Div"

(***************************************************************************)
(* C5: the message of an ArithmeticError is resolved from its code: code 0 *)
(* gives the Success kind and message, code 1 the DivByZero kind and       *)
(* message, so that the error parser returns on a zero divisor displays    *)
(* the division-by-zero message, and every other code gives no kind and    *)
(* the unknown-error-code message.                                         *)
(***************************************************************************)
ExpectedKind(c) ==
    IF c = 0 THEN Some("Success") ELSE IF c = 1 THEN Some("DivByZero") ELSE None

ExpectedMessage(c) ==
    IF c = 0 THEN MsgSuccess ELSE IF c = 1 THEN MsgDivByZero ELSE MsgUnknown

C5_MessageFromCode ==
    message # "" =>
        /\ message = MsgDivByZero
        /\ \A c \in 0 .. MaxCode :
              /\ to_enum([e_code |-> c]) = ExpectedKind(c)
              /\ resolve_string([e_code |-> c]) = ExpectedMessage(c)

(***************************************************************************)
(* C6: division by zero short-circuits: the step of pass 2 that applies a  *)
(* Div operator to a right operand 0 returns Err(DivByZero) at once, and   *)
(* after it nothing is popped, no operator is applied and no value is      *)
(* returned, so that a fault later in the reduction order is not reached.  *)
(***************************************************************************)
AppliesDivToZero ==
    /\ AtOperator({"Div"})
    /\ Len(ans) >= 2
    /\ Top(ans) = Some(0)
    /\ Top(Pop(ans)) # None

C6_ShortCircuit ==
    /\ [][AppliesDivToZero =>
            /\ pc' = "done"
            /\ result' = Err([e_code |-> 1])]_vars
    /\ [][result.kind = "Err" =>
            UNCHANGED <<parser_stack, rev_polish, ans, pc, result, pops>>]_vars

\* the error is returned while a zero divisor, an underflow and a Number(None)
\* are still to be reduced
C6_Witness ==
    /\ pc = "done"
    /\ result = Err([e_code |-> 1])
    /\ Len(rev_polish) >= 1
    /\ \E i \in 1 .. Len(rev_polish) : rev_polish[i] = ExprNumber(None)

(***************************************************************************)
(* C7 as stated: for every input tree that contains a bare Operator node   *)
(* or a Number(None) node, parser ends in a panic; it returns neither      *)
(* Ok(value) nor the typed Err(ArithmeticError).                           *)
(***************************************************************************)
RECURSIVE ContainsOperator(_)
ContainsOperator(t) ==
    CASE t.tag = "Operator" -> TRUE
      [] t.tag = "Operation" -> ContainsOperator(t.l) \/ ContainsOperator(t.r)
      [] OTHER -> FALSE

RECURSIVE ContainsNone(_)
ContainsNone(t) ==
    CASE t.tag = "Number" -> t.num = None
      [] t.tag = "Operation" -> ContainsNone(t.l) \/ ContainsNone(t.r)
      [] OTHER -> FALSE

C7_Original ==
    (ContainsOperator(op) \/ ContainsNone(op)) =>
        /\ result.kind \notin {"Ok", "Err"}
        /\ pc = "done" => result = Panic

(***************************************************************************)
(* C7 amended: a tree that contains a bare Operator node always ends in a  *)
(* panic; a tree that contains a Number(None) node never returns           *)
(* Ok(value), and it ends in a panic unless a Div step with right operand  *)
(* 0 returns Err(DivByZero) before a None is unwrapped.                    *)
(***************************************************************************)
C7_MalformedNeverOk ==
    /\ ContainsOperator(op) =>
          /\ result.kind \notin {"Ok", "Err"}
          /\ pc = "done" => result = Panic
    /\ ContainsNone(op) =>
          /\ result.kind # "Ok"
          /\ pc = "done" => result \in {Panic, Err([e_code |-> 1])}

C7_Witness ==
    /\ pc = "done"
    /\ ContainsNone(op)
    /\ ~ContainsOperator(op)
    /\ op.tag = "Operation"
    /\ op.l = ExprNumber(None)
    /\ result = Err([e_code |-> 1])

(***************************************************************************)
(* C8: for every well-formed tree, when the first loop exits the work      *)
(* stack is empty and the output sequence is flat(root), one element per   *)
(* tree node, where flat(Number(n)) = [Number(n)] and flat(Operation(l, r, *)
(* op)) = [Operator(op)] ++ flat(r) ++ flat(l).                            *)
(***************************************************************************)
RECURSIVE flat(_)
flat(t) ==
    IF t.tag = "Operation"
    THEN <<ExprOperator(t.op)>> \o flat(t.r) \o flat(t.l)
    ELSE <<t>>

C8_Flattening ==
    [][(pc = "pass1" /\ pc' = "pass2" /\ WellFormed(op)) =>
          /\ parser_stack' = <<>>
          /\ rev_polish' = flat(op)
          /\ Len(rev_polish') = NodeCount(op)]_vars

C8_Witness ==
    /\ pc = "pass2"
    /\ ans = <<>>
    /\ WellFormed(op)
    /\ op.tag = "Operation"
    /\ op.l.tag = "Operation"
    /\ op.r.tag = "Number"
    /\ parser_stack = <<>>
    /\ rev_polish = flat(op)
    /\ Len(rev_polish) = 5

(***************************************************************************)
(* C9 as stated: a step of pass 2 that pops an Operator and applies it     *)
(* pushes the computed value onto the result stack: the result stack holds *)
(* one element fewer than before, the computed value on top, and the       *)
(* output sequence has gained no element.                                  *)
(***************************************************************************)
\* the step pops an Operator, applies it and goes on with the loop
AppliesOperator == AtOperator(OperatorKind) /\ pc' = "pass2"

\* the values the operator on top of rev_polish computes from the top of ans
Computed ==
    Apply(Top(rev_polish).op, Top(Pop(ans))[1], Top(ans)[1]) \ {None}

C9_Original ==
    [][AppliesOperator =>
          /\ Len(ans') = Len(ans) - 1
          /\ Top(ans') \in Computed
          /\ Len(rev_polish') <= Len(rev_polish)]_vars

(***************************************************************************)
(* C9 amended: a step of pass 2 that pops an Operator and applies it       *)
(* pushes the computed value, as a Number, back onto the output sequence:  *)
(* after the step the result stack holds two elements fewer than before    *)
(* and the output sequence has the length it had, the computed value on    *)
(* top in place of the operator.                                           *)
(***************************************************************************)
C9_PushesOntoOutput ==
    [][AppliesOperator =>
          /\ ans' = Pop(Pop(ans))
          /\ Len(ans') = Len(ans) - 2
          /\ Len(rev_polish') = Len(rev_polish)
          /\ Pop(rev_polish') = Pop(rev_polish)
          /\ Top(rev_polish').tag = "Number"
          /\ Top(rev_polish').num \in Computed]_vars

\* the state after 2 - 1 was applied below another operator
C9_Witness ==
    /\ pc = "pass2"
    /\ op.tag = "Operation"
    /\ op.l = BinaryOp_new(Number_new(2), Number_new(1), "Sub")
    /\ op.r = Number_new(2)
    /\ ans = <<>>
    /\ rev_polish = <<ExprOperator(op.op), Number_new(2), Number_new(1)>>

(***************************************************************************)
(* C10: for every well-formed tree whose arithmetic stays in the unsigned  *)
(* range parser terminates with Ok or Err(DivByZero): the first loop exits *)
(* after one pop per tree node, the second loop exits, no loop pops an     *)
(* empty stack (an Operator popped in pass 2 finds two values on the       *)
(* result stack) or panics, and on an Ok exit the output sequence is empty *)
(* and the result stack held exactly one value.                            *)
(***************************************************************************)
StaysInRange(t) == WellFormed(t) /\ evaluate(t) # RangeFault

C10_Terminates ==
    /\ (pc = "pass1" /\ StaysInRange(op))
          ~> (pc = "done" /\ result.kind \in {"Ok", "Err"})
    /\ [](StaysInRange(op) =>
            /\ result # Panic
            /\ pops <= NodeCount(op)
            /\ pc = "pass1" => parser_stack # <<>>
            /\ pc = "pass2" =>
                  /\ pops = NodeCount(op)
                  /\ rev_polish # <<>>
                  /\ Top(rev_polish).tag = "Operator" => Len(ans) >= 2
            /\ pc = "ret" => rev_polish = <<>> /\ Len(ans) = 1
            /\ result.kind = "Ok" => rev_polish = <<>> /\ ans = <<>>)

C10_Witness ==
    /\ pc = "done"
    /\ StaysInRange(op)
    /\ NodeCount(op) = 5
    /\ pops = 5
    /\ result.kind = "Ok"
    /\ rev_polish = <<>>

=============================================================================
